---- MODULE Spec2Model ----
(***************************************************************************)
(* Model of TSP_DFJ_Pyomo.py: the powerset generator, the DFJ formulation  *)
(* builder (sets, cost dictionary, binary variables, objective, degree and *)
(* subtour-elimination constraints), the call of the MILP solver and the   *)
(* extraction of the results.                                              *)
(***************************************************************************)
EXTENDS Integers, Sequences, FiniteSets, TLC

\* ---------------------------------------------------------------- bounds
MaxN == 3        \* largest node count n given to TSP_DFJ_Formulation
MaxCost == 1     \* largest entry of a generated cost matrix
MaxLen == 3      \* longest iterable given to powerset on its own
MaxElem == 3     \* elements of those iterables are drawn from 0..MaxElem

VARIABLES
    pc,                \* position in the script
    n,                 \* argument n
    costMatrix,        \* argument costMatrix, a sequence of rows
    N0, N, arc_IJ, c,  \* lines 24-27
    model_x,           \* index set of model.x (binary variables), line 33
    model_objective,   \* model.objective: terms and sense, line 36
    model_constraints, \* model.constraints, the ConstraintList, line 41
    k,                 \* position of the running for loop
    iterable,          \* powerset: s = list(iterable)
    yielded,           \* powerset: the tuples the chain has yielded so far
    SubtourSet,        \* line 52
    status,            \* what the solver reported
    xval,              \* model.x[i].value after the solve
    result,            \* the returned tuple
    err                \* the exception that ended the function

vars == <<pc, n, costMatrix, N0, N, arc_IJ, c, model_x, model_objective,
          model_constraints, k, iterable, yielded, SubtourSet, status, xval,
          result, err>>

\* ------------------------------------------------------- python helpers
\* range(a, b) as a list
Range(a, b) == [p \in 1..(IF b > a THEN b - a ELSE 0) |-> a + p - 1]

\* the elements of a list
Elems(s) == {s[p] : p \in 1..Len(s)}

\* seq[idx] is defined for -len <= idx < len; anything else is an IndexError
IndexOK(seq, idx) == idx >= -Len(seq) /\ idx < Len(seq)

\* seq[idx] with Python's 0-based and negative indexing
PyGet(seq, idx) == IF idx < 0 THEN seq[Len(seq) + idx + 1] ELSE seq[idx + 1]

\* seq[1:-1]
SliceInner(seq) == SubSeq(seq, 2, Len(seq) - 1)

RECURSIVE Flatten(_)
\* chain.from_iterable over a list of lists
Flatten(ss) == IF ss = <<>> THEN <<>> ELSE Head(ss) \o Flatten(Tail(ss))

RECURSIVE combinations(_, _)
\* itertools.combinations(s, r): the r-length tuples of s in lexicographic
\* order of their positions
combinations(s, r) ==
    IF r = 0 THEN << <<>> >>
    ELSE IF Len(s) < r THEN <<>>
    ELSE LET with == combinations(Tail(s), r - 1)
         IN  [p \in 1..Len(with) |-> <<Head(s)>> \o with[p]]
             \o combinations(Tail(s), r)

\* powerset with range(len(s)) for range(len(s)+1): the full tuple is lost
powerset_short(s) == Flatten([q \in 1..Len(s) |-> combinations(s, q - 1)])

\* list(powerset(s)): combinations(s, r) for r in range(len(s)+1), chained
powerset(s) == Flatten([q \in 1..(Len(s) + 1) |-> combinations(s, q - 1)])

\* ------------------------------------------------- formulation helpers
\* line 24: N0 = [i for i in range(0,n+1)]
NodesN0(nn) == Range(0, nn + 1)

\* N with range(1,n-1) for range(1,n): the last customer is lost
NodesN_short(nn) == Range(1, nn - 1)

\* N with range(1,n+1) for range(1,n): node n is taken for a customer
NodesN_through(nn) == Range(1, nn + 1)

\* line 25: N = [i for i in range(1,n)]
NodesN(nn) == Range(1, nn)

\* [(i,j) for i in A for j in B], i running slowest
Pairs(A, B) ==
    [p \in 1..(Len(A) * Len(B)) |->
        <<A[((p - 1) \div Len(B)) + 1], B[((p - 1) % Len(B)) + 1]>>]

\* the "if i!=j" filter of the comprehensions
Distinct(a) == a[1] # a[2]

\* arc_IJ without the i!=j filter
Arcs_withLoops(nodes) == Pairs(nodes, nodes)

\* line 26: arc_IJ = [(i,j) for i in N0 for j in N0 if i!=j]
Arcs(nodes) == SelectSeq(Pairs(nodes, nodes), Distinct)

\* line 27 evaluates costMatrix[i-1][j-1] for every arc; an index outside
\* the matrix raises IndexError, a negative one wraps around
CostLookupOK(cm, arcs) ==
    \A p \in 1..Len(arcs) :
        /\ IndexOK(cm, arcs[p][1] - 1)
        /\ IndexOK(PyGet(cm, arcs[p][1] - 1), arcs[p][2] - 1)

\* line 27: c = {(i,j) : costMatrix[i-1][j-1] for (i,j) in arc_IJ}
CostDict(cm, arcs) ==
    [a \in Elems(arcs) |-> PyGet(PyGet(cm, a[1] - 1), a[2] - 1)]

\* line 45: sum([model.x[i,j] for i in N0 if i!=j]) == 1
InboundConstraint(j, nodes) ==
    [terms |-> SelectSeq(Pairs(nodes, <<j>>), Distinct), sense |-> "==", rhs |-> 1]

\* line 49: sum([model.x[i,j] for j in N0 if i!=j]) == 1
OutboundConstraint(i, nodes) ==
    [terms |-> SelectSeq(Pairs(<<i>>, nodes), Distinct), sense |-> "==", rhs |-> 1]

\* the subtour constraint with len(S)-2 for len(S)-1
SubtourConstraint_tight(S) ==
    [terms |-> SelectSeq(Pairs(S, S), Distinct), sense |-> "<=", rhs |-> Len(S) - 2]

\* line 55: sum([model.x[i,j] for i in S for j in S if i!=j]) <= len(S)-1
SubtourConstraint(S) ==
    [terms |-> SelectSeq(Pairs(S, S), Distinct), sense |-> "<=", rhs |-> Len(S) - 1]

\* the guard with 3 for 2: the two-node subtours are not eliminated
SubtourGuard_three(S) == Len(S) >= 3

\* line 54: if len(S) >= 2
SubtourGuard(S) == Len(S) >= 2

\* SubtourSet with [1:] for [1:-1]: the full node set stays in
SubtourCandidates_full(tuples) == SubSeq(tuples, 2, Len(tuples))

\* line 52: SubtourSet = list(powerset(N0))[1:-1]
SubtourCandidates(tuples) == SliceInner(tuples)

\* ------------------------------------------------------------- inputs
\* the k x k symmetric matrices with a zero diagonal given by the distances d
SymMatrix(kk, d) ==
    [r \in 1..kk |-> [q \in 1..kk |->
        IF r = q THEN 0 ELSE IF r < q THEN d[<<r, q>>] ELSE d[<<q, r>>]]]

UpperPairs(kk) == {a \in (1..kk) \X (1..kk) : a[1] < a[2]}

\* symmetric distance matrices of dimension kk with entries in 0..MaxCost
CostMatrices(kk) == {SymMatrix(kk, d) : d \in [UpperPairs(kk) -> 0..MaxCost]}

\* a rows x cols matrix of unit distances (0 on the diagonal)
UnitMatrix(rows, cols) ==
    [r \in 1..rows |-> [q \in 1..cols |-> IF r = q THEN 0 ELSE 1]]

\* matrices whose shape is inconsistent with nn: too small, too large, and
\* not square
Mismatched(nn) ==
    {UnitMatrix(nn - 1, nn - 1), UnitMatrix(nn + 1, nn + 1),
     UnitMatrix(nn, nn + 1), UnitMatrix(nn - 1, nn)}

\* the 4-node unit square of the specification's scenario
SquareMatrix == << <<0, 1, 2, 1>>, <<1, 0, 1, 2>>, <<2, 1, 0, 1>>, <<1, 2, 1, 0>> >>

SquareInput == <<Len(SquareMatrix), SquareMatrix>>

\* the shape the specification requires of costMatrix: n x n
ShapeOK(nn, cm) == Len(cm) = nn /\ \A r \in 1..Len(cm) : Len(cm[r]) = nn

\* ------------------------------------------------------------- states
Start(nn, cm) ==
    /\ pc = "start"
    /\ n = nn
    /\ costMatrix = cm
    /\ N0 = <<>> /\ N = <<>> /\ arc_IJ = <<>> /\ c = <<>>
    /\ model_x = <<>>
    /\ model_objective = <<>>
    /\ model_constraints = <<>>
    /\ k = 0
    /\ iterable = <<>> /\ yielded = <<>> /\ SubtourSet = <<>>
    /\ status = "none" /\ xval = <<>> /\ result = <<>> /\ err = "none"

Init ==
    \/ \E nn \in 1..MaxN : \E cm \in CostMatrices(nn) \cup Mismatched(nn) : Start(nn, cm)
    \/ Start(SquareInput[1], SquareInput[2])

\* ---------------------------------------------------------- the builder
\* lines 24-27
DefineSets ==
    /\ pc = "start"
    /\ N0' = NodesN0(n)
    /\ N' = NodesN(n)
    /\ arc_IJ' = Arcs(NodesN0(n))
    /\ IF CostLookupOK(costMatrix, Arcs(NodesN0(n)))
       THEN /\ c' = CostDict(costMatrix, Arcs(NodesN0(n)))
            /\ pc' = "var"
            /\ err' = err
       ELSE /\ c' = c
            /\ pc' = "failed"
            /\ err' = "IndexError"
    /\ UNCHANGED <<n, costMatrix, model_x, model_objective, model_constraints, k,
                   iterable, yielded, SubtourSet, status, xval, result>>

\* lines 30-33: model.x = pyo.Var(arc_IJ, within=pyo.Binary)
CreateVariables ==
    /\ pc = "var"
    /\ model_x' = arc_IJ
    /\ pc' = "objective"
    /\ UNCHANGED <<n, costMatrix, N0, N, arc_IJ, c, model_objective,
                   model_constraints, k, iterable, yielded, SubtourSet, status,
                   xval, result, err>>

\* lines 36-41: the objective, then the empty ConstraintList
DefineObjective ==
    /\ pc = "objective"
    /\ model_objective' = [coef |-> [a \in Elems(arc_IJ) |-> c[a]], sense |-> "minimize"]
    /\ model_constraints' = <<>>
    /\ k' = 1
    /\ pc' = "inbound"
    /\ UNCHANGED <<n, costMatrix, N0, N, arc_IJ, c, model_x, iterable, yielded,
                   SubtourSet, status, xval, result, err>>

\* lines 44-45, one iteration
AddInbound ==
    /\ pc = "inbound" /\ k <= Len(N)
    /\ model_constraints' = Append(model_constraints, InboundConstraint(N[k], N0))
    /\ k' = k + 1
    /\ UNCHANGED <<pc, n, costMatrix, N0, N, arc_IJ, c, model_x, model_objective,
                   iterable, yielded, SubtourSet, status, xval, result, err>>

InboundDone ==
    /\ pc = "inbound" /\ k > Len(N)
    /\ pc' = "outbound"
    /\ k' = 1
    /\ UNCHANGED <<n, costMatrix, N0, N, arc_IJ, c, model_x, model_objective,
                   model_constraints, iterable, yielded, SubtourSet, status, xval,
                   result, err>>

\* lines 48-49, one iteration
AddOutbound ==
    /\ pc = "outbound" /\ k <= Len(N)
    /\ model_constraints' = Append(model_constraints, OutboundConstraint(N[k], N0))
    /\ k' = k + 1
    /\ UNCHANGED <<pc, n, costMatrix, N0, N, arc_IJ, c, model_x, model_objective,
                   iterable, yielded, SubtourSet, status, xval, result, err>>

\* the loop ends; line 52 calls powerset(N0)
OutboundDone ==
    /\ pc = "outbound" /\ k > Len(N)
    /\ pc' = "powerset"
    /\ iterable' = N0
    /\ yielded' = <<>>
    /\ UNCHANGED <<n, costMatrix, N0, N, arc_IJ, c, model_x, model_objective,
                   model_constraints, k, SubtourSet, status, xval, result, err>>

\* lines 16-18: the chain yields its next tuple
PowersetYield ==
    /\ pc = "powerset"
    /\ Len(yielded) < Len(powerset(iterable))
    /\ yielded' = Append(yielded, powerset(iterable)[Len(yielded) + 1])
    /\ UNCHANGED <<pc, n, costMatrix, N0, N, arc_IJ, c, model_x, model_objective,
                   model_constraints, k, iterable, SubtourSet, status, xval,
                   result, err>>

\* line 52: the chain is exhausted, list(...)[1:-1] is bound to SubtourSet
BindSubtourSet ==
    /\ pc = "powerset"
    /\ Len(yielded) = Len(powerset(iterable))
    /\ SubtourSet' = SubtourCandidates(yielded)
    /\ k' = 1
    /\ pc' = "subtour"
    /\ UNCHANGED <<n, costMatrix, N0, N, arc_IJ, c, model_x, model_objective,
                   model_constraints, iterable, yielded, status, xval, result, err>>

\* lines 53-55, one iteration
AddSubtour ==
    /\ pc = "subtour" /\ k <= Len(SubtourSet)
    /\ model_constraints' =
          IF SubtourGuard(SubtourSet[k])
          THEN Append(model_constraints, SubtourConstraint(SubtourSet[k]))
          ELSE model_constraints
    /\ k' = k + 1
    /\ UNCHANGED <<pc, n, costMatrix, N0, N, arc_IJ, c, model_x, model_objective,
                   iterable, yielded, SubtourSet, status, xval, result, err>>

SubtourDone ==
    /\ pc = "subtour" /\ k > Len(SubtourSet)
    /\ pc' = "solve"
    /\ UNCHANGED <<n, costMatrix, N0, N, arc_IJ, c, model_x, model_objective,
                   model_constraints, k, iterable, yielded, SubtourSet, status,
                   xval, result, err>>

\* ---------------------------------------------------------- the solver
\* An assignment of the binary variables is written as the set of the
\* variables whose value is 1.

\* the value of a constraint's left-hand side under an assignment
Lhs(con, sel) == Cardinality({t \in 1..Len(con.terms) : con.terms[t] \in sel})

\* the assignment satisfies the constraint
Satisfies(con, sel) ==
    IF con.sense = "==" THEN Lhs(con, sel) = con.rhs ELSE Lhs(con, sel) <= con.rhs

\* the coefficient of variable a in a constraint's left-hand side
Coefficient(con, a) == Cardinality({t \in 1..Len(con.terms) : con.terms[t] = a})

RECURSIVE Complete(_, _, _, _, _, _)
\* The feasible assignments that extend sel, the variables xs[p..] being
\* open. A[q][p] is the coefficient of xs[p] in cons[q], R[p][q] the sum of
\* the coefficients of xs[p+1..] in cons[q], lhs[q] the value of cons[q]'s
\* left-hand side under sel. A branch is cut when a left-hand side exceeds
\* its right-hand side, or when an equality can no longer be reached.
Complete(cons, A, R, p, sel, lhs) ==
    IF p > Len(R)
    THEN IF \A q \in 1..Len(cons) :
               IF cons[q].sense = "==" THEN lhs[q] = cons[q].rhs
                                       ELSE lhs[q] <= cons[q].rhs
         THEN {sel} ELSE {}
    ELSE LET with == [q \in 1..Len(cons) |-> lhs[q] + A[q][p]] \o <<>>
             skip == IF \A q \in 1..Len(cons) :
                           cons[q].sense = "==" => lhs[q] + R[p][q] >= cons[q].rhs
                     THEN Complete(cons, A, R, p + 1, sel, lhs) ELSE {}
             take == IF \A q \in 1..Len(cons) : with[q] <= cons[q].rhs
                     THEN Complete(cons, A, R, p + 1, sel \cup {p}, with) ELSE {}
         IN  skip \cup take

RECURSIVE Remaining(_, _)
\* Remaining(A, p)[q]: the sum of A[q][p+1..]
Remaining(A, p) ==
    IF p >= Len(A[1]) THEN [q \in 1..Len(A) |-> 0] \o <<>>
    ELSE LET next == Remaining(A, p + 1)
         IN  [q \in 1..Len(A) |-> next[q] + A[q][p + 1]] \o <<>>

\* every 0/1 assignment of the variables xs that satisfies all constraints
Feasible(cons, xs) ==
    IF cons = <<>> THEN SUBSET Elems(xs)
    ELSE LET A == [q \in 1..Len(cons) |->
                     [p \in 1..Len(xs) |-> Coefficient(cons[q], xs[p])] \o <<>>] \o <<>>
             R == [p \in 1..Len(xs) |-> Remaining(A, p)] \o <<>>
             zero == [q \in 1..Len(cons) |-> 0] \o <<>>
         IN  {{xs[p] : p \in ps} : ps \in Complete(cons, A, R, 1, {}, zero)}

RECURSIVE SumOver(_, _, _)
SumOver(coef, xs, sel) ==
    IF xs = <<>> THEN 0
    ELSE (IF Head(xs) \in sel THEN coef[Head(xs)] ELSE 0) + SumOver(coef, Tail(xs), sel)

\* the value of the objective expression under an assignment
ObjectiveValue(obj, xs, sel) == SumOver(obj.coef, xs, sel)

\* the least element of a non-empty set of numbers
Min(S) == CHOOSE v \in S : \A w \in S : v <= w

\* the feasible assignments of least objective value
Optimal(obj, cons, xs) ==
    LET valued == {<<s, ObjectiveValue(obj, xs, s)>> : s \in Feasible(cons, xs)}
        best == Min({sv[2] : sv \in valued})
    IN  {sv[1] : sv \in {tv \in valued : tv[2] = best}}

\* the values the solver loads into model.x for an assignment
Values(xs, sel) == [a \in Elems(xs) |-> IF a \in sel THEN 1 ELSE 0]

\* the variables of value 1
Selected(xs, x) == {a \in Elems(xs) : x[a] = 1}

\* lines 58-60: solver.solve(model). The solver either proves an optimum
\* and loads it, or ends without a solution (infeasible, interrupted) and
\* leaves every variable's value None (written <<>>).
SolverOutcomes(obj, cons, xs) ==
    {[status |-> "optimal", x |-> Values(xs, s)] : s \in Optimal(obj, cons, xs)}
    \cup {[status |-> "noSolution", x |-> <<>>]}

Solve ==
    /\ pc = "solve"
    /\ \E out \in SolverOutcomes(model_objective, model_constraints, model_x) :
          /\ status' = out.status
          /\ xval' = out.x
    /\ pc' = "extract"
    /\ UNCHANGED <<n, costMatrix, N0, N, arc_IJ, c, model_x, model_objective,
                   model_constraints, k, iterable, yielded, SubtourSet, result, err>>

\* ------------------------------------------------------- the extraction
\* line 63: model.objective()
SolutionObjective(obj, xs, x) == ObjectiveValue(obj, xs, Selected(xs, x))

\* lines 64-67: the (index, value) pairs of the variables of positive value,
\* in the order of model.x
TourRepo(xs, x) ==
    LET Positive(a) == x[a] > 0
        used == SelectSeq(xs, Positive)
    IN  [p \in 1..Len(used) |-> <<used[p], x[used[p]]>>]

\* lines 63-72. With a proven optimum both bounds of the solver's report
\* equal the objective value, and line 69 divides by the upper bound. With no
\* solution loaded every value is None: evaluating the objective at line 63
\* raises ValueError, or, should that pass, None > 0 at line 66 raises
\* TypeError.
ExtractOutcomes(st, obj, xs, x) ==
    IF st = "noSolution"
    THEN {[pc |-> "failed", err |-> e, result |-> <<>>] : e \in {"ValueError", "TypeError"}}
    ELSE LET upper == SolutionObjective(obj, xs, x)
             lower == SolutionObjective(obj, xs, x)
         IN  IF upper = 0
             THEN {[pc |-> "failed", err |-> "ZeroDivisionError", result |-> <<>>]}
             ELSE {[pc |-> "done", err |-> "none",
                    result |-> [solutionObjective |-> SolutionObjective(obj, xs, x),
                                solutionGap |-> (upper - lower) \div upper,
                                tourRepo |-> TourRepo(xs, x)]]}

Extract ==
    /\ pc = "extract"
    /\ \E out \in ExtractOutcomes(status, model_objective, model_x, xval) :
          /\ pc' = out.pc
          /\ err' = out.err
          /\ result' = out.result
    /\ UNCHANGED <<n, costMatrix, N0, N, arc_IJ, c, model_x, model_objective,
                   model_constraints, k, iterable, yielded, SubtourSet, status, xval>>

Build ==
    \/ DefineSets
    \/ CreateVariables
    \/ DefineObjective
    \/ AddInbound
    \/ InboundDone
    \/ AddOutbound
    \/ OutboundDone
    \/ PowersetYield
    \/ BindSubtourSet
    \/ AddSubtour
    \/ SubtourDone

Next == Build \/ Solve \/ Extract

Spec == Init /\ [][Next]_vars

\* ------------------------------------------------- powerset on its own
\* the lists of distinct elements of 0..MaxElem, of length 0..MaxLen
Iterables ==
    {s \in UNION {[1..l -> 0..MaxElem] : l \in 0..MaxLen} :
        \A p, q \in 1..Len(s) : p # q => s[p] # s[q]}

InitPowerset ==
    /\ pc = "powerset"
    /\ iterable \in Iterables
    /\ yielded = <<>>
    /\ n = 0 /\ costMatrix = <<>>
    /\ N0 = <<>> /\ N = <<>> /\ arc_IJ = <<>> /\ c = <<>>
    /\ model_x = <<>> /\ model_objective = <<>> /\ model_constraints = <<>>
    /\ k = 0 /\ SubtourSet = <<>>
    /\ status = "none" /\ xval = <<>> /\ result = <<>> /\ err = "none"

SpecPowerset == InitPowerset /\ [][PowersetYield]_vars

\* ------------------------------------------------------------- claims
\* the set of ordered pairs of distinct elements of a set
ArcsWithin(S) == {a \in S \X S : a[1] # a[2]}

\* the constraints of the ConstraintList with the given sense
WithSense(cons, sense) == {q \in 1..Len(cons) : cons[q].sense = sense}

\* constraint q has each arc of T exactly once on its left-hand side, and
\* nothing else
SumsExactly(con, T) == Elems(con.terms) = T /\ Len(con.terms) = Cardinality(T)

\* the model is complete and about to be handed to the solver
Assembled == pc = "solve"

\* the matrix row a node's costs are read from: node 0 and node n both read
\* the last row (costMatrix[-1] and costMatrix[n-1])
RowOf(v) == IF v = 0 THEN n ELSE v

\* the selected arcs as trips between matrix rows, the arcs between node 0
\* and node n (one row) left out
Trips(sel) == {a \in sel : RowOf(a[1]) # RowOf(a[2])}

RECURSIVE Orbit(_, _, _)
\* the rows reached from row r by following the trips
Orbit(trips, seen, r) ==
    IF r \in seen THEN seen
    ELSE LET out == {a \in trips : RowOf(a[1]) = r}
         IN  IF out = {} THEN seen \cup {r}
             ELSE Orbit(trips, seen \cup {r}, RowOf((CHOOSE a \in out : TRUE)[2]))

\* the selected arcs are one tour over the rows of the matrix: every row is
\* left once and entered once, and the tour from the depot's row covers all
IsTour(sel) ==
    \/ n = 1
    \/ /\ \A r \in 1..n : /\ Cardinality({a \in Trips(sel) : RowOf(a[1]) = r}) = 1
                          /\ Cardinality({a \in Trips(sel) : RowOf(a[2]) = r}) = 1
       /\ Orbit(Trips(sel), {}, n) = 1..n

RECURSIVE TourCost(_, _, _)
\* the cost of the closed tour that visits the rows in the order f
TourCost(cm, f, p) ==
    IF p > Len(f) THEN 0
    ELSE cm[f[p]][f[(p % Len(f)) + 1]] + TourCost(cm, f, p + 1)

\* the least cost of a Hamiltonian tour of a square cost matrix
MinTourCost(cm) ==
    IF Len(cm) = 1 THEN 0
    ELSE Min({TourCost(cm, f, 1) :
                f \in {g \in [1..Len(cm) -> 1..Len(cm)] :
                          g[1] = 1 /\ \A p, q \in 1..Len(cm) : p # q => g[p] # g[q]}})

\* C1: for an n x n matrix, every optimum the solver can return is one
\* Hamiltonian tour over the n rows (nodes 0 and n read as the one depot), and
\* its objective value is the least Hamiltonian tour cost of the matrix.
C1_OptimumIsMinimumTour ==
    (pc = "extract" /\ status = "optimal" /\ ShapeOK(n, costMatrix)) =>
        /\ IsTour(Selected(model_x, xval))
        /\ SolutionObjective(model_objective, model_x, xval) = MinTourCost(costMatrix)

\* C2: on the 4-node unit square the optimum has objective value 4 and its
\* selected arcs touch each of the 4 rows of the matrix.
C2_SquareOptimum ==
    (pc = "extract" /\ status = "optimal" /\ <<n, costMatrix>> = SquareInput) =>
        /\ SolutionObjective(model_objective, model_x, xval) = 4
        /\ \A r \in 1..n : \E a \in Trips(Selected(model_x, xval)) :
              RowOf(a[1]) = r \/ RowOf(a[2]) = r

C2_Witness ==
    /\ pc = "done" /\ <<n, costMatrix>> = SquareInput
    /\ result.solutionObjective = 4
    /\ Len(result.tourRepo) = 4

\* C3: for n >= 3 the assembled model holds exactly one subtour-elimination
\* constraint (sum of the arcs within S <= |S| - 1) for each subset S of 0..n
\* with 2 <= |S| <= n, and no other "<=" constraint: 2^(n+1) - 2 - (n+1) in all.
C3_SubtourConstraints ==
    (Assembled /\ n >= 3) =>
        LET sub == WithSense(model_constraints, "<=")
            sets == {S \in SUBSET (0..n) : Cardinality(S) >= 2 /\ Cardinality(S) <= n}
        IN  /\ Cardinality(sub) = 2^(n + 1) - 2 - (n + 1)
            /\ \A S \in sets :
                  Cardinality({q \in sub :
                      /\ SumsExactly(model_constraints[q], ArcsWithin(S))
                      /\ model_constraints[q].rhs = Cardinality(S) - 1}) = 1
            /\ \A q \in sub : \E S \in sets :
                  SumsExactly(model_constraints[q], ArcsWithin(S))

C3_Witness ==
    Assembled /\ n = 3 /\ Cardinality(WithSense(model_constraints, "<=")) = 10

\* C4: once created, model.x holds one binary variable for each ordered pair
\* of distinct nodes of 0..n and no other: (n+1)*n variables, none a
\* self-loop; the solver assigns each 0 or 1.
C4_Variables ==
    (pc \notin {"start", "var"} /\ err # "IndexError") =>
        /\ Elems(model_x) = ArcsWithin(0..n)
        /\ Len(model_x) = (n + 1) * n
        /\ \A a \in Elems(model_x) : a[1] # a[2]
        /\ status = "optimal" => \A a \in Elems(model_x) : xval[a] \in {0, 1}

C4_Witness ==
    pc = "objective" /\ n = 3 /\ ShapeOK(n, costMatrix) /\ Len(model_x) = 12

\* C5: after the two degree loops the model holds exactly 2 * (n-1) equality
\* constraints: for each customer j in 1..n-1 one that sets the sum of the
\* arcs into j to 1 and one that sets the sum of the arcs out of j to 1, and
\* none for the depot, node 0.
C5_DegreeConstraints ==
    (pc \in {"powerset", "subtour", "solve"}) =>
        LET deg == WithSense(model_constraints, "==")
            into(j) == {<<i, j>> : i \in (0..n) \ {j}}
            outof(i) == {<<i, j>> : j \in (0..n) \ {i}}
        IN  /\ Cardinality(deg) = 2 * Cardinality(1..(n - 1))
            /\ \A j \in 1..(n - 1) :
                  /\ Cardinality({q \in deg : SumsExactly(model_constraints[q], into(j))}) = 1
                  /\ Cardinality({q \in deg : SumsExactly(model_constraints[q], outof(j))}) = 1
            /\ \A q \in deg :
                  /\ model_constraints[q].rhs = 1
                  /\ ~SumsExactly(model_constraints[q], into(0))
                  /\ ~SumsExactly(model_constraints[q], outof(0))

C5_Witness ==
    pc = "powerset" /\ n = 3 /\ Cardinality(WithSense(model_constraints, "==")) = 4

\* the position of an element in a list of distinct elements
PositionIn(s, e) == CHOOSE p \in 1..Len(s) : s[p] = e

\* C6: the tuples powerset yields are pairwise different subsets of the
\* input, each in the input's relative order; once the chain is exhausted
\* there are 2^len of them, one for every subset (the empty and the full
\* tuple included), and exactly the empty tuple for an empty input.
C6_Powerset ==
    pc = "powerset" =>
        /\ \A p, q \in 1..Len(yielded) : p # q => Elems(yielded[p]) # Elems(yielded[q])
        /\ \A p \in 1..Len(yielded) :
              /\ Elems(yielded[p]) \subseteq Elems(iterable)
              /\ Len(yielded[p]) = Cardinality(Elems(yielded[p]))
              /\ \A i, j \in 1..Len(yielded[p]) :
                    i < j => PositionIn(iterable, yielded[p][i]) < PositionIn(iterable, yielded[p][j])
        /\ ~ENABLED PowersetYield =>
              /\ Len(yielded) = 2^Len(iterable)
              /\ {Elems(yielded[p]) : p \in 1..Len(yielded)} = SUBSET Elems(iterable)
              /\ iterable = <<>> => yielded = << <<>> >>

C6_Witness ==
    /\ pc = "powerset" /\ n = 0 /\ ~ENABLED PowersetYield
    /\ iterable = <<2, 0, 1>> /\ Len(yielded) = 8
    /\ yielded[5] = <<2, 0>> /\ yielded[8] = <<2, 0, 1>>

\* C7: when the solver ends without a solution (the input being well
\* formed), the function ends with the error NoSolutionAvailable and returns
\* no result.
C7_NoSolutionAvailable ==
    (status = "noSolution" /\ ShapeOK(n, costMatrix) /\ pc \in {"done", "failed"}) =>
        pc = "failed" /\ err = "NoSolutionAvailable" /\ result = <<>>

\* C8: with a cost matrix that is not n x n the function fails before any
\* variable or constraint is generated and never builds or solves a model
\* (whatever the kind of the error it fails with).
C8_DimensionMismatch ==
    ~ShapeOK(n, costMatrix) =>
        /\ model_x = <<>> /\ model_constraints = <<>> /\ status = "none"
        /\ pc \in {"start", "failed"}

RECURSIVE Peel(_, _)
\* V with the nodes removed, one after the other, that have no selected arc
\* into what is left: what remains is empty iff no cycle lies within V
Peel(sel, V) ==
    IF \E v \in V : \A w \in V : <<v, w>> \notin sel
    THEN Peel(sel, V \ {CHOOSE v \in V : \A w \in V : <<v, w>> \notin sel})
    ELSE V

\* some cycle of selected arcs misses at least one node of 0..n
HasSubtour(sel) == \E u \in 0..n : Peel(sel, (0..n) \ {u}) # {}

\* the selected arcs are one cycle through every node of 0..n
IsFullCycle(sel) ==
    /\ Cardinality(sel) = n + 1
    /\ \A v \in 0..n : \E w \in 0..n : <<v, w>> \in sel
    /\ ~HasSubtour(sel)

\* C9: no 0/1 assignment that satisfies the assembled constraints contains
\* a directed cycle confined to a strict subset of the nodes 0..n.
C9_NoSubtour ==
    Assembled => \A sel \in Feasible(model_constraints, model_x) : ~HasSubtour(sel)

C9_Witness ==
    /\ Assembled /\ n = 3
    /\ \E sel \in Feasible(model_constraints, model_x) : IsFullCycle(sel)

\* the arcs of the path 0 -> 1 -> ... -> n
PathArcs == {<<i, i + 1>> : i \in 0..(n - 1)}

\* C10: the assembled constraint set is satisfiable, whatever the costs: the
\* path 0 -> 1 -> ... -> n satisfies every constraint.
C10_Satisfiable ==
    Assembled =>
        /\ PathArcs \subseteq Elems(model_x)
        /\ \A q \in 1..Len(model_constraints) : Satisfies(model_constraints[q], PathArcs)

C10_Witness ==
    /\ pc = "extract" /\ status = "optimal" /\ n = 3
    /\ Selected(model_x, xval) = PathArcs

====
